---- MODULE Spec2Model ----
(***************************************************************************)
(* CrisisNavigator: the enrichment pipeline over the disaster_events       *)
(* collection.                                                             *)
(*   disaster_ingest.py   one-shot feed ingestor                           *)
(*   app.py               daemon worker (background_processor) + read API  *)
(*   gemini_processor.py  batch worker (thread pool, one finite pass)      *)
(*                                                                         *)
(* Analysis text is modelled as a sequence of atoms.  An atom stands for   *)
(* a substring of the text: the two spellings of the marker, a space, a    *)
(* line break, a word of letters/punctuation, or one decimal digit.        *)
(*                                                                         *)
(* Specifications:                                                         *)
(*   Spec         ingestor, daemon and batch runs, interleaved             *)
(*   SpecPoison   Spec, noting the records whose analysis returned None    *)
(*   SpecDaemon   ingestor and daemon, with the time the daemon spends     *)
(*   SpecIngest   runs of the ingestor, noting the feed of the last run    *)
(*   SpecAnalyze  analyze_event and the commit after it, on single inputs  *)
(*   SpecLive     the daemon alone on an ingested collection, weakly fair  *)
(*   SpecWorkers  daemon and batch runs at the same time, one reply        *)
(*   SpecSerial   daemon cycles and batch runs, one worker at a time       *)
(*   SpecPool     one batch run on more records than pool threads          *)
(*   SpecStats    /api/stats, count by count, next to the workers          *)
(*   SpecImage    get_first_image_url of both workers, on single inputs    *)
(* The history variables (ingestLog, slept, window, failed, raced) are     *)
(* written only by the specification that observes them.                   *)
(***************************************************************************)
EXTENDS Integers, Sequences, FiniteSets, TLC

\* ------------------------------------------------------------------ bounds
MaxTextLen == 4
MaxRecords == 2
MaxFeedLen == 2
\* records in the collection when gemini_processor.py is run on a full pool
MaxPoolTasks == 6
\* pieces in a URL, and sources of an event
MaxUrlLen == 2
MaxSources == 2

\* ------------------------------------------------------- program constants
\* severity = 5: the default of every extractor
DefaultSeverity == 5
\* 1 <= int(word) <= 10
MinSeverity == 1
MaxSeverity == 10
\* {"severity": {"$gt": 7}}
HighSeverity == 7
\* .limit(10) of the daemon's discovery, .limit(50) of the batch run's
DaemonLimit == 10
BatchLimit == 50
\* ThreadPoolExecutor(max_workers=5)
PoolWidth == 5
\* .limit(100) of the listing
ListLimit == 100
\* sleeps of the daemon, in tenths of a second: 1.2 s, 60 s, 300 s, 60 s
ItemSleep == 12
BatchSleep == 600
IdleSleep == 3000
ErrorSleep == 600
\* the rolling window of the rate budget (60 s, in tenths of a second) and
\* the budget the 1.2 s delay stands for (60 / 1.2 = 50 calls)
RateWindow == 600
RateBudget == 50
\* "severity": None, as written by the ingestor
None == -1

\* -------------------------------------------------------------------- text
MarkLower == "severity score:"
MarkUpper == "Severity score:"
Digits == {"0", "1", "4", "5", "9"}
Spaces == {" ", "\n"}
Alphabet == {MarkLower, MarkUpper, "w"} \cup Spaces \cup Digits

Texts == UNION {[1..n -> Alphabet] : n \in 0..MaxTextLen}

DigitVal(d) ==
    CASE d = "0" -> 0 [] d = "1" -> 1 [] d = "4" -> 4 [] d = "5" -> 5
      [] d = "9" -> 9 [] OTHER -> 0

\* int(s) for a string of decimal digits
RECURSIVE IntOf(_)
IntOf(s) ==
    IF s = <<>> THEN 0
    ELSE 10 * IntOf(SubSeq(s, 1, Len(s) - 1)) + DigitVal(s[Len(s)])

\* str.isdigit(): non-empty and every character a digit
IsDigit(s) == s # <<>> /\ \A i \in 1..Len(s) : s[i] \in Digits

\* str.lower()
Lower(s) == [i \in 1..Len(s) |-> IF s[i] = MarkUpper THEN MarkLower ELSE s[i]]

\* "severity score:" in response_text.lower()
HasMarker(s) == \E i \in 1..Len(s) : Lower(s)[i] = MarkLower

\* the characters of a text as split() sees them: a marker is two words
\* around a space
RECURSIVE Chars(_)
Chars(s) ==
    IF s = <<>> THEN <<>>
    ELSE (IF s[1] \in {MarkLower, MarkUpper} THEN <<"w", " ", "w">> ELSE <<s[1]>>)
         \o Chars(Tail(s))

\* str.split(): the maximal runs of non-whitespace characters, in order
RECURSIVE SplitFrom(_, _)
SplitFrom(cs, cur) ==
    IF cs = <<>> THEN (IF cur = <<>> THEN <<>> ELSE <<cur>>)
    ELSE IF cs[1] \in Spaces
         THEN (IF cur = <<>> THEN <<>> ELSE <<cur>>) \o SplitFrom(Tail(cs), <<>>)
         ELSE SplitFrom(Tail(cs), Append(cur, cs[1]))

Split(s) == SplitFrom(Chars(s), <<>>)

InRange(n) == MinSeverity <= n /\ n <= MaxSeverity

\* for word in text.split(): if word.isdigit() and 1 <= int(word) <= 10:
\*     severity = int(word); break
TokenFallback(s) ==
    LET ws == Split(s)
        hits == {i \in 1..Len(ws) : IsDigit(ws[i]) /\ InRange(IntOf(ws[i]))}
    IN  IF hits = {} THEN DefaultSeverity
        ELSE IntOf(ws[CHOOSE i \in hits : \A j \in hits : i <= j])

\* first index >= i that holds no whitespace (Len(s) + 1 when none)
SkipSpaces(s, i) ==
    CHOOSE j \in i..(Len(s) + 1) :
        /\ \A k \in i..(j - 1) : s[k] \in Spaces
        /\ (j <= Len(s) => s[j] \notin Spaces)

\* the maximal run of digits starting at i
DigitRun(s, i) ==
    LET e == CHOOSE j \in i..(Len(s) + 1) :
                 /\ \A k \in i..(j - 1) : s[k] \in Digits
                 /\ (j <= Len(s) => s[j] \notin Digits)
    IN  SubSeq(s, i, e - 1)

\* re.search(r"severity\s*score:\s*(\d+)", text, re.IGNORECASE).group(1):
\* the capture of the leftmost match, <<>> when there is no match
RegexCapture(s) ==
    LET at == {i \in 1..Len(s) :
                  /\ Lower(s)[i] = MarkLower
                  /\ DigitRun(s, SkipSpaces(s, i + 1)) # <<>>}
    IN  IF at = {} THEN <<>>
        ELSE LET i == CHOOSE i \in at : \A j \in at : i <= j
             IN  DigitRun(s, SkipSpaces(s, i + 1))

\* app.py, analyze_event: the severity of the result
ExtractApp(s) ==
    LET m == RegexCapture(s)
    IN  IF m # <<>> /\ IsDigit(m) /\ InRange(IntOf(m)) THEN IntOf(m)
        ELSE TokenFallback(s)

\* gemini_processor.py, analyze_event: the severity of the result (which the
\* dispatch loop then ignores)
ExtractTask(s) ==
    IF HasMarker(s)
    THEN LET m == RegexCapture(s)
         IN  IF m # <<>> THEN IntOf(m) ELSE DefaultSeverity
    ELSE TokenFallback(s)

\* text.split("severity score:"): the pieces between the lower-case markers
RECURSIVE SplitMarker(_, _)
SplitMarker(s, cur) ==
    IF s = <<>> THEN <<cur>>
    ELSE IF s[1] = MarkLower THEN <<cur>> \o SplitMarker(Tail(s), <<>>)
         ELSE SplitMarker(Tail(s), Append(cur, s[1]))

\* piece.split("\n")[0]
FirstLine(s) ==
    LET nl == {i \in 1..Len(s) : s[i] = "\n"}
    IN  IF nl = {} THEN s
        ELSE SubSeq(s, 1, (CHOOSE i \in nl : \A j \in nl : i <= j) - 1)

\* str.strip()
RECURSIVE Strip(_)
Strip(s) ==
    IF s = <<>> THEN s
    ELSE IF s[1] \in Spaces THEN Strip(Tail(s))
    ELSE IF s[Len(s)] \in Spaces THEN Strip(SubSeq(s, 1, Len(s) - 1))
    ELSE s

\* gemini_processor.py, dispatch loop: the severity it commits.  An
\* IndexError of [1] (the marker occurs in another case only) is caught and
\* leaves the default.
ExtractLoop(s) ==
    IF HasMarker(s)
    THEN LET parts == SplitMarker(s, <<>>)
         IN  IF Len(parts) < 2 THEN DefaultSeverity
             ELSE LET score_text == Strip(FirstLine(parts[2]))
                  IN  IF IsDigit(score_text) THEN IntOf(score_text)
                      ELSE DefaultSeverity
    ELSE TokenFallback(s)


\* the replies of the external analysis service the pipeline is run against
ServiceTexts ==
    { <<MarkUpper, " ", "9">>,
      <<MarkLower, " ", "1", "5">>,
      <<"w", " ", "4">> }

\* a reply of the service: <<>> (the call raised) or <<text>>
Replies == {<<>>} \cup {<<t>> : t \in ServiceTexts}

\* what became of the image of an event
ImageOutcomes == {"absent", "status_error", "transport_error", "decode_error", "decoded"}

VARIABLES
    store,      \* db.disaster_events: the documents, in insertion order
    clock,      \* the last reading of time.time() written to a document
    dPc,        \* background_processor: where the thread is
    dBatch,     \* background_processor: unprocessed (the _ids)
    dIdx,       \* background_processor: position in unprocessed
    bPc,        \* gemini_processor.py: where the script is
    bTasks,     \* gemini_processor.py: future_to_event, by _id
    ingestLog,  \* history: the feed and the outcome of the last ingest run
    slept,      \* history: time the daemon slept since its last find()
    window,     \* history: ages of the analysis calls the daemon started in the last 60 s
    failed,     \* history: _ids for which a worker got None from analyze_event
    aIn,        \* an input of analyze_event: event, image outcome, reply
    aOut,       \* the outcomes of analyze_event and of the commit on aIn
    raced,      \* history: _ids a run committed after another worker had enriched them
    statsPc,    \* get_stats: where the handler is
    stats,      \* get_stats: the counts read so far, then the response
    uIn,        \* an input of get_first_image_url: the sources of an event
    uOut        \* what get_first_image_url returned on uIn, in app.py and in gemini_processor.py

vars == <<store, clock, dPc, dBatch, dIdx, bPc, bTasks,
          ingestLog, slept, window, failed, aIn, aOut,
          raced, statsPc, stats, uIn, uOut>>

storeVars == <<store, clock>>
daemonVars == <<dPc, dBatch, dIdx>>
batchVars == <<bPc, bTasks>>
analyzeVars == <<aIn, aOut>>
\* the history variables: each is written only in the specification that
\* observes it
timeVars == <<slept, window>>
statsVars == <<statsPc, stats>>
urlVars == <<uIn, uOut>>
restVars == <<raced, statsVars, urlVars>>

Ids == 1..Len(store)

\* ---------------------------------------------------------- disaster_ingest
EntryKinds ==
    {"ok", "no_title", "no_categories", "no_geometry", "empty_geometry",
     "no_coordinates", "no_date"}

Feeds == UNION {[1..n -> EntryKinds] : n \in 0..MaxFeedLen}

\* the structure check on eonet_data[0]: "pass", or the exception it raises.
\* KeyError is handled by exit(1); IndexError is not handled and ends the
\* script as well.
SampleCheck(entry) ==
    CASE entry = "no_geometry" -> "KeyError"
      [] entry = "empty_geometry" -> "IndexError"
      [] entry = "no_coordinates" -> "KeyError"
      [] entry = "no_categories" -> "KeyError"
      [] OTHER -> "pass"

\* the document is built without KeyError or IndexError
WellFormed(entry) == entry \in {"ok", "no_title"}

Doc(entry) ==
    [ type |-> "category", location |-> "Point", timestamp |-> "date",
      severity |-> None, raw_data |-> entry,
      analysis |-> <<>>, processed |-> FALSE, last_processed |-> 0 ]

RECURSIVE Documents(_)
Documents(feed) ==
    IF feed = <<>> THEN <<>>
    ELSE (IF WellFormed(feed[1]) THEN <<Doc(feed[1])>> ELSE <<>>)
         \o Documents(Tail(feed))

\* how a run on the feed ends: "empty" and "aborted" are exit(1) before any
\* document is built
IngestStatus(feed) ==
    IF feed = <<>> THEN "empty"
    ELSE IF SampleCheck(feed[1]) # "pass" THEN "aborted"
    ELSE "done"

\* one run of disaster_ingest.py on the feed array eonet_data
IngestRun(feed) ==
    /\ Len(store) + Len(Documents(feed)) <= MaxRecords
    /\ store' = IF IngestStatus(feed) = "done" THEN store \o Documents(feed)
                ELSE store
    /\ UNCHANGED <<clock, daemonVars, batchVars, analyzeVars>>

\* ----------------------------------------------------------- analyze_event
\* app.py, analyze_event: the number of generate_content calls, whether the
\* call carried an image, whether the prompt carried the "IMAGE ANALYSIS"
\* instruction, and the result (<<>> for None)
analyze_event_app(event, img, reply) ==
    [ calls |-> 1,
      multimodal |-> (img = "decoded"),
      instruction |-> (img = "decoded"),
      raised |-> FALSE,
      result |-> IF reply = <<>> THEN <<>>
                 ELSE <<[severity |-> ExtractApp(reply[1]), analysis |-> reply[1]]>> ]

\* gemini_processor.py, analyze_event.  event['raw_data']['title'] raises
\* KeyError before the call; the handler then uses traceback, which is not
\* imported, so the NameError leaves the function.
analyze_event_batch(event, img, reply) ==
    IF event.raw_data = "no_title"
    THEN [calls |-> 0, multimodal |-> FALSE, instruction |-> FALSE,
          raised |-> TRUE, result |-> <<>>]
    ELSE [ calls |-> 1,
           multimodal |-> (img = "decoded"),
           instruction |-> (img = "decoded"),
           raised |-> FALSE,
           result |-> IF reply = <<>> THEN <<>>
                      ELSE <<[severity |-> ExtractTask(reply[1]), analysis |-> reply[1]]>> ]

\* the outcomes analyze_event can have for an event in the pipeline: whether
\* it raised, and its result
AppOutcomes(event) ==
    { [raised |-> r.raised, result |-> r.result] :
        r \in {analyze_event_app(event, x[1], x[2]) : x \in ImageOutcomes \X Replies} }

BatchOutcomes(event) ==
    { [raised |-> r.raised, result |-> r.result] :
        r \in {analyze_event_batch(event, x[1], x[2]) : x \in ImageOutcomes \X Replies} }

\* the outcomes, by the raw_data of the events the ingestor can store
StoredKinds == {k \in EntryKinds : WellFormed(k)}
AppOutcomeTable == [k \in StoredKinds |-> AppOutcomes(Doc(k))]
BatchOutcomeTable == [k \in StoredKinds |-> BatchOutcomes(Doc(k))]
AppOutcomeSpace == UNION {AppOutcomeTable[k] : k \in StoredKinds}
BatchOutcomeSpace == UNION {BatchOutcomeTable[k] : k \in StoredKinds}

\* ---------------------------------------------------------------- queries
\* the first n elements of a sequence
Take(s, n) == SubSeq(s, 1, IF Len(s) < n THEN Len(s) ELSE n)

\* the ids of a set, ascending (insertion order)
RECURSIVE Ascending(_)
Ascending(S) ==
    IF S = {} THEN <<>>
    ELSE LET m == CHOOSE i \in S : \A j \in S : i <= j
         IN  <<m>> \o Ascending(S \ {m})

\* find({"processed": {"$ne": True}})
DaemonMatches == {i \in Ids : ~store[i].processed}

\* find({"severity": None})
BatchMatches == {i \in Ids : store[i].severity = None}

\* --------------------------------------------------------------- commits
\* app.py: update_one({"_id": id}, {"$set": {severity, analysis,
\* processed: True, last_processed: time.time()}})
DaemonCommit(doc, result, now) ==
    [doc EXCEPT !.severity = result.severity,
                !.analysis = <<result.analysis>>,
                !.processed = TRUE,
                !.last_processed = now]

\* an update_one filtered on {"_id": ..., "severity": None}
BatchCommitIfUnenriched(doc, result, now) ==
    IF doc.severity # None THEN doc
    ELSE [doc EXCEPT !.severity = ExtractLoop(result.analysis),
                     !.analysis = <<result.analysis>>,
                     !.last_processed = now]

\* gemini_processor.py: the severity is extracted again from the text, then
\* update_one({"_id": id}, {"$set": {severity, analysis, last_processed}})
BatchCommit(doc, result, now) ==
    [doc EXCEPT !.severity = ExtractLoop(result.analysis),
                !.analysis = <<result.analysis>>,
                !.last_processed = now]

\* a poison-pill write that also stamps the event time
BatchPoisonStamping(doc) == [doc EXCEPT !.processed = TRUE, !.timestamp = "now"]

\* gemini_processor.py: update_one({"_id": id}, {"$set": {"processed": True}})
BatchPoison(doc) == [doc EXCEPT !.processed = TRUE]

\* ------------------------------------------------- app.py, the daemon loop
\* the exception leaves background_processor and ends the thread
OnLoopExceptionUncaught == "terminated"

\* where the thread goes when an exception reaches "except Exception as e"
OnLoopException == "error_sleep"

\* unprocessed = list(events_col.find({"processed": {"$ne": True}}).limit(10))
\* (~dbOk: the read raises)
BackgroundFind(dbOk) ==
    /\ dPc = "find"
    /\ IF ~dbOk
       THEN /\ dPc' = OnLoopException
            /\ UNCHANGED <<dBatch, dIdx>>
       ELSE LET unprocessed == Take(Ascending(DaemonMatches), DaemonLimit)
            IN  /\ dBatch' = unprocessed
                /\ dIdx' = 1
                /\ dPc' = IF unprocessed = <<>> THEN "idle_sleep" ELSE "item"
    /\ UNCHANGED <<storeVars, batchVars, analyzeVars>>

\* the body of "for event in unprocessed": analyze_event, update_one,
\* time.sleep(1.2) (~dbOk: update_one raises)
BackgroundItem(out, dbOk) ==
    /\ dPc = "item"
    /\ out \in AppOutcomeTable[store[dBatch[dIdx]].raw_data]
    /\ LET id == dBatch[dIdx]
       IN  IF out.result # <<>> /\ ~dbOk
           THEN /\ dPc' = OnLoopException
                /\ UNCHANGED <<store, clock, dIdx>>
           ELSE /\ IF out.result # <<>>
                   THEN /\ store' = [store EXCEPT ![id] =
                                        DaemonCommit(@, out.result[1], clock + 1)]
                        /\ clock' = clock + 1
                   ELSE UNCHANGED <<store, clock>>
                /\ dIdx' = dIdx + 1
                /\ dPc' = IF dIdx = Len(dBatch) THEN "batch_sleep" ELSE "item"
    /\ UNCHANGED <<dBatch, batchVars, analyzeVars>>

\* time.sleep(300); continue
BackgroundIdleSleep ==
    /\ dPc = "idle_sleep"
    /\ dPc' = "find"
    /\ UNCHANGED <<storeVars, dBatch, dIdx, batchVars, analyzeVars>>

\* time.sleep(60) after the batch
BackgroundBatchSleep ==
    /\ dPc = "batch_sleep"
    /\ dPc' = "find"
    /\ UNCHANGED <<storeVars, dBatch, dIdx, batchVars, analyzeVars>>

\* except Exception: time.sleep(60), then the next turn of "while True"
BackgroundErrorSleep ==
    /\ dPc = "error_sleep"
    /\ dPc' = "find"
    /\ UNCHANGED <<storeVars, dBatch, dIdx, batchVars, analyzeVars>>

\* ------------------------------------- gemini_processor.py, the batch run
Queued == {i \in DOMAIN bTasks : bTasks[i].st = "queued"}
Running == {i \in DOMAIN bTasks : bTasks[i].st = "running"}
Completed == {i \in DOMAIN bTasks : bTasks[i].st = "done"}

\* unprocessed = list(events.find({"severity": None}).limit(50)); every event
\* is submitted to the pool
BatchStart ==
    /\ bPc = "idle"
    /\ LET unprocessed == Take(Ascending(BatchMatches), BatchLimit)
       IN  bTasks' = [i \in {unprocessed[k] : k \in 1..Len(unprocessed)} |->
                        [st |-> "queued", raised |-> FALSE, result |-> <<>>]]
    /\ bPc' = "pool"
    /\ UNCHANGED <<storeVars, daemonVars, analyzeVars>>

\* a pool that starts every submitted task at once
BatchTaskStartUnbounded ==
    /\ bPc = "pool"
    /\ Queued # {}
    /\ LET id == CHOOSE i \in Queued : \A j \in Queued : i <= j
       IN  bTasks' = [bTasks EXCEPT ![id].st = "running"]
    /\ UNCHANGED <<storeVars, daemonVars, bPc, analyzeVars>>

\* a free pool thread takes the next submitted task
BatchTaskStart ==
    /\ bPc = "pool"
    /\ Queued # {}
    /\ Cardinality(Running) < PoolWidth
    /\ LET id == CHOOSE i \in Queued : \A j \in Queued : i <= j
       IN  bTasks' = [bTasks EXCEPT ![id].st = "running"]
    /\ UNCHANGED <<storeVars, daemonVars, bPc, analyzeVars>>

\* analyze_event(event) returns or raises in its pool thread
BatchTaskFinish(id, out) ==
    /\ bPc = "pool"
    /\ id \in Running
    /\ out \in BatchOutcomeTable[store[id].raw_data]
    /\ bTasks' = [bTasks EXCEPT ![id] =
                    [st |-> "done", raised |-> out.raised, result |-> out.result]]
    /\ UNCHANGED <<storeVars, daemonVars, bPc, analyzeVars>>

\* one turn of "for i, future in enumerate(as_completed(future_to_event))"
BatchConsume(id) ==
    /\ bPc = "pool"
    /\ id \in Completed
    /\ LET t == bTasks[id]
       IN  IF ~t.raised /\ t.result # <<>>
           THEN /\ store' = [store EXCEPT ![id] = BatchCommit(@, t.result[1], clock + 1)]
                /\ clock' = clock + 1
           ELSE /\ store' = [store EXCEPT ![id] = BatchPoison(@)]
                /\ clock' = clock
    /\ bTasks' = [bTasks EXCEPT ![id].st = "consumed"]
    /\ UNCHANGED <<daemonVars, bPc, analyzeVars>>

\* the with block is left and the script ends
BatchExit ==
    /\ bPc = "pool"
    /\ \A i \in DOMAIN bTasks : bTasks[i].st = "consumed"
    /\ bPc' = "idle"
    /\ bTasks' = <<>>
    /\ UNCHANGED <<storeVars, daemonVars, analyzeVars>>

\* ------------------------------------------------------- app.py, read API
\* /api/stats
get_stats ==
    [ total_events |-> Len(store),
      processed |-> Cardinality({i \in Ids : store[i].processed}),
      high_severity |-> Cardinality({i \in Ids : store[i].severity > HighSeverity}) ]

\* sort("last_processed", -1): a document without the field sorts last;
\* documents with equal keys keep their insertion order
RECURSIVE Descending(_)
Descending(S) ==
    IF S = {} THEN <<>>
    ELSE LET m == CHOOSE i \in S : \A j \in S :
                      \/ store[i].last_processed > store[j].last_processed
                      \/ (store[i].last_processed = store[j].last_processed /\ i <= j)
         IN  <<m>> \o Descending(S \ {m})

\* /api/disasters: the _ids of the documents returned, in order
get_disasters ==
    Take(Descending({i \in Ids : store[i].processed}), ListLimit)

\* no count read yet
NoStats == [total_events |-> None, processed |-> None, high_severity |-> None]

\* /api/stats as the handler runs it: three count_documents calls, one
\* after the other, then the response
StatsCountAll ==
    /\ statsPc = "idle"
    /\ stats' = [NoStats EXCEPT !.total_events = Len(store)]
    /\ statsPc' = "count_processed"
    /\ UNCHANGED <<storeVars, daemonVars, batchVars, analyzeVars>>

StatsCountProcessed ==
    /\ statsPc = "count_processed"
    /\ stats' = [stats EXCEPT !.processed = Cardinality({i \in Ids : store[i].processed})]
    /\ statsPc' = "count_high"
    /\ UNCHANGED <<storeVars, daemonVars, batchVars, analyzeVars>>

StatsCountHigh ==
    /\ statsPc = "count_high"
    /\ stats' = [stats EXCEPT !.high_severity =
                    Cardinality({i \in Ids : store[i].severity > HighSeverity})]
    /\ statsPc' = "idle"
    /\ UNCHANGED <<storeVars, daemonVars, batchVars, analyzeVars>>

\* --------------------------------------- analyze_event on a single input
AnalyzeInputs ==
    [ event : {Doc("ok"), Doc("no_title")},
      img : ImageOutcomes,
      reply : {<<>>} \cup {<<t>> : t \in Texts} ]

\* what the daemon does with one event: the call, and the document after it
AnalyzeApp ==
    /\ aOut.app = <<>>
    /\ LET r == analyze_event_app(aIn.event, aIn.img, aIn.reply)
       IN  aOut' = [aOut EXCEPT !.app =
               <<[ calls |-> r.calls, multimodal |-> r.multimodal,
                   instruction |-> r.instruction, returned |-> r.result,
                   doc |-> IF r.result # <<>>
                           THEN DaemonCommit(aIn.event, r.result[1], 1)
                           ELSE aIn.event ]>>]
    /\ UNCHANGED <<storeVars, daemonVars, batchVars, aIn>>

\* what the batch run does with one event: the call, and the document after
\* the dispatch loop has handled the future
AnalyzeBatch ==
    /\ aOut.batch = <<>>
    /\ LET r == analyze_event_batch(aIn.event, aIn.img, aIn.reply)
       IN  aOut' = [aOut EXCEPT !.batch =
               <<[ calls |-> r.calls, multimodal |-> r.multimodal,
                   instruction |-> r.instruction, returned |-> r.result,
                   doc |-> IF ~r.raised /\ r.result # <<>>
                           THEN BatchCommit(aIn.event, r.result[1], 1)
                           ELSE BatchPoison(aIn.event) ]>>]
    /\ UNCHANGED <<storeVars, daemonVars, batchVars, aIn>>

\* ------------------------------------------------------ get_first_image_url
\* a URL is a sequence of pieces: "x" stands for text without an image
\* extension in it, the other pieces are the extensions as they are written.
\* <<>> is the empty string, which source.get('url', '') also gives for a
\* source without url.
UrlPieces == {"x", ".png", ".JPG", ".jpeg"}
Urls == UNION {[1..n -> UrlPieces] : n \in 0..MaxUrlLen}
SourceLists == UNION {[1..n -> Urls] : n \in 0..MaxSources}

\* ['.png', '.jpg', '.jpeg']
ImageExts == {".png", ".jpg", ".jpeg"}

\* url.lower()
LowerUrl(url) == [k \in DOMAIN url |-> IF url[k] = ".JPG" THEN ".jpg" ELSE url[k]]

\* any(ext in url.lower() for ext in ['.png', '.jpg', '.jpeg'])
ContainsExt(url) == \E k \in DOMAIN url : LowerUrl(url)[k] \in ImageExts

\* url.lower().endswith(('.png', '.jpg', '.jpeg'))
EndsWithExt(url) == url # <<>> /\ LowerUrl(url)[Len(url)] \in ImageExts

\* app.py: the first url with "url and any(ext in url.lower() ...)";
\* <<>> for None
RECURSIVE get_first_image_url_app(_)
get_first_image_url_app(sources) ==
    IF sources = <<>> THEN <<>>
    ELSE IF Head(sources) # <<>> /\ ContainsExt(Head(sources)) THEN <<Head(sources)>>
    ELSE get_first_image_url_app(Tail(sources))

\* gemini_processor.py: the first url that ends with an extension;
\* <<>> for None
RECURSIVE get_first_image_url_batch(_)
get_first_image_url_batch(sources) ==
    IF sources = <<>> THEN <<>>
    ELSE IF EndsWithExt(Head(sources)) THEN <<Head(sources)>>
    ELSE get_first_image_url_batch(Tail(sources))

\* get_first_image_url of app.py on the sources uIn
ImageApp ==
    /\ uOut.app = <<>>
    /\ uOut' = [uOut EXCEPT !.app = <<get_first_image_url_app(uIn)>>]
    /\ UNCHANGED <<storeVars, daemonVars, batchVars, analyzeVars, uIn>>

\* get_first_image_url of gemini_processor.py on the sources uIn
ImageBatch ==
    /\ uOut.batch = <<>>
    /\ uOut' = [uOut EXCEPT !.batch = <<get_first_image_url_batch(uIn)>>]
    /\ UNCHANGED <<storeVars, daemonVars, batchVars, analyzeVars, uIn>>

\* ----------------------------------------------------------- observers
\* the ages of the recorded calls after d tenths of a second; a call leaves
\* the window when it is older than 60 s
Age(w, d) ==
    LET aged == [i \in 1..Len(w) |-> w[i] + d]
    IN  SelectSeq(aged, LAMBDA a : a <= RateWindow)

\* a sleep that returns at once
SleepSkipped(w, d) == w

\* time.sleep(d)
Sleep(w, d) == Age(w, d)

\* how long generate_content may take: it returns at once, or outlasts the
\* window
CallTimes == {0, RateWindow + 1}

TimedFind(dbOk) ==
    /\ BackgroundFind(dbOk)
    /\ slept' = 0
    /\ window' = window

\* the call starts now and takes dur; time.sleep(1.2) follows unless
\* update_one raised
TimedItem(out, dbOk, dur) ==
    /\ BackgroundItem(out, dbOk)
    /\ LET called == Age(Append(window, 0), dur)
       IN  IF out.result # <<>> /\ ~dbOk
           THEN window' = called /\ slept' = slept
           ELSE window' = Sleep(called, ItemSleep) /\ slept' = slept + ItemSleep

\* "continue" without the sleep of 5 minutes
TimedIdleSkipped ==
    /\ BackgroundIdleSleep
    /\ window' = window
    /\ slept' = slept

\* time.sleep(300) after an empty find()
TimedIdleSleep ==
    /\ BackgroundIdleSleep
    /\ window' = Sleep(window, IdleSleep)
    /\ slept' = slept + IdleSleep

TimedBatchSleep ==
    /\ BackgroundBatchSleep
    /\ window' = Sleep(window, BatchSleep)
    /\ slept' = slept + BatchSleep

TimedErrorSleep ==
    /\ BackgroundErrorSleep
    /\ window' = Sleep(window, ErrorSleep)
    /\ slept' = slept + ErrorSleep

\* the daemon got None from analyze_event for the record it is at
NotedItem(out, dbOk) ==
    /\ BackgroundItem(out, dbOk)
    /\ failed' = IF out.result = <<>> THEN failed \cup {dBatch[dIdx]} ELSE failed

\* the dispatch loop got None from the future of the record
NotedConsume(id) ==
    /\ BatchConsume(id)
    /\ failed' = IF ~bTasks[id].raised /\ bTasks[id].result = <<>>
                 THEN failed \cup {id} ELSE failed

LoggedIngest(feed) ==
    /\ IngestRun(feed)
    /\ ingestLog' = [feed |-> feed, status |-> IngestStatus(feed), before |-> Len(store)]

\* ------------------------------------------------------- specifications
InitRest ==
    /\ raced = {}
    /\ statsPc = "idle"
    /\ stats = NoStats
    /\ uIn = <<>>
    /\ uOut = [app |-> <<>>, batch |-> <<>>]

Init ==
    /\ store = <<>>
    /\ clock = 0
    /\ dPc = "find"
    /\ dBatch = <<>>
    /\ dIdx = 1
    /\ bPc = "idle"
    /\ bTasks = <<>>
    /\ ingestLog = [feed |-> <<>>, status |-> "none", before |-> 0]
    /\ slept = 0
    /\ window = <<>>
    /\ failed = {}
    /\ aIn = [event |-> Doc("ok"), img |-> "absent", reply |-> <<>>]
    /\ aOut = [app |-> <<>>, batch |-> <<>>]
    /\ InitRest

\* the ingestor, the daemon of app.py and runs of gemini_processor.py
Next ==
    \/ \E feed \in Feeds : IngestRun(feed) /\ UNCHANGED <<ingestLog, timeVars, failed, restVars>>
    \/ \E dbOk \in BOOLEAN : BackgroundFind(dbOk) /\ UNCHANGED <<ingestLog, timeVars, failed, restVars>>
    \/ \E dbOk \in BOOLEAN : \E out \in AppOutcomeSpace :
          BackgroundItem(out, dbOk) /\ UNCHANGED <<ingestLog, timeVars, failed, restVars>>
    \/ BackgroundIdleSleep /\ UNCHANGED <<ingestLog, timeVars, failed, restVars>>
    \/ BackgroundBatchSleep /\ UNCHANGED <<ingestLog, timeVars, failed, restVars>>
    \/ BackgroundErrorSleep /\ UNCHANGED <<ingestLog, timeVars, failed, restVars>>
    \/ BatchStart /\ UNCHANGED <<ingestLog, timeVars, failed, restVars>>
    \/ BatchTaskStart /\ UNCHANGED <<ingestLog, timeVars, failed, restVars>>
    \/ \E id \in DOMAIN bTasks : \E out \in BatchOutcomeSpace :
          BatchTaskFinish(id, out) /\ UNCHANGED <<ingestLog, timeVars, failed, restVars>>
    \/ \E id \in DOMAIN bTasks : BatchConsume(id) /\ UNCHANGED <<ingestLog, timeVars, failed, restVars>>
    \/ BatchExit /\ UNCHANGED <<ingestLog, timeVars, failed, restVars>>

Spec == Init /\ [][Next]_vars

\* the same, noting the records for which analyze_event returned None
NextPoison ==
    \/ \E feed \in Feeds : IngestRun(feed) /\ UNCHANGED <<ingestLog, timeVars, failed, restVars>>
    \/ \E dbOk \in BOOLEAN : BackgroundFind(dbOk) /\ UNCHANGED <<ingestLog, timeVars, failed, restVars>>
    \/ \E dbOk \in BOOLEAN : \E out \in AppOutcomeSpace :
          NotedItem(out, dbOk) /\ UNCHANGED <<ingestLog, timeVars, restVars>>
    \/ BackgroundIdleSleep /\ UNCHANGED <<ingestLog, timeVars, failed, restVars>>
    \/ BackgroundBatchSleep /\ UNCHANGED <<ingestLog, timeVars, failed, restVars>>
    \/ BackgroundErrorSleep /\ UNCHANGED <<ingestLog, timeVars, failed, restVars>>
    \/ BatchStart /\ UNCHANGED <<ingestLog, timeVars, failed, restVars>>
    \/ BatchTaskStart /\ UNCHANGED <<ingestLog, timeVars, failed, restVars>>
    \/ \E id \in DOMAIN bTasks : \E out \in BatchOutcomeSpace :
          BatchTaskFinish(id, out) /\ UNCHANGED <<ingestLog, timeVars, failed, restVars>>
    \/ \E id \in DOMAIN bTasks : NotedConsume(id) /\ UNCHANGED <<ingestLog, timeVars, restVars>>
    \/ BatchExit /\ UNCHANGED <<ingestLog, timeVars, failed, restVars>>

SpecPoison == Init /\ [][NextPoison]_vars

\* the ingestor and the daemon of app.py, with the time the daemon spends
NextDaemon ==
    \/ \E feed \in Feeds : IngestRun(feed) /\ UNCHANGED <<ingestLog, timeVars, failed, restVars>>
    \/ \E dbOk \in BOOLEAN : TimedFind(dbOk) /\ UNCHANGED <<ingestLog, failed, restVars>>
    \/ \E dbOk \in BOOLEAN, dur \in CallTimes : \E out \in AppOutcomeSpace :
          TimedItem(out, dbOk, dur) /\ UNCHANGED <<ingestLog, failed, restVars>>
    \/ TimedIdleSleep /\ UNCHANGED <<ingestLog, failed, restVars>>
    \/ TimedBatchSleep /\ UNCHANGED <<ingestLog, failed, restVars>>
    \/ TimedErrorSleep /\ UNCHANGED <<ingestLog, failed, restVars>>

SpecDaemon == Init /\ [][NextDaemon]_vars

\* runs of the ingestor, each on a feed of its own
NextIngest ==
    \E feed \in Feeds : LoggedIngest(feed) /\ UNCHANGED <<timeVars, failed, restVars>>

SpecIngest == Init /\ [][NextIngest]_vars

InitAnalyze ==
    /\ store = <<>>
    /\ clock = 0
    /\ dPc = "find"
    /\ dBatch = <<>>
    /\ dIdx = 1
    /\ bPc = "idle"
    /\ bTasks = <<>>
    /\ ingestLog = [feed |-> <<>>, status |-> "none", before |-> 0]
    /\ slept = 0
    /\ window = <<>>
    /\ failed = {}
    /\ aIn \in AnalyzeInputs
    /\ aOut = [app |-> <<>>, batch |-> <<>>]
    /\ InitRest

NextAnalyze ==
    \/ AnalyzeApp /\ UNCHANGED <<ingestLog, timeVars, failed, restVars>>
    \/ AnalyzeBatch /\ UNCHANGED <<ingestLog, timeVars, failed, restVars>>

\* analyze_event and the commit that follows it, on every bounded input
SpecAnalyze == InitAnalyze /\ [][NextAnalyze]_vars

\* ------------------------------------------ the workers on an ingested store
\* the collections a done run of disaster_ingest.py leaves behind
IngestedStores ==
    {Documents(feed) : feed \in {f \in Feeds : /\ IngestStatus(f) = "done"
                                               /\ Len(Documents(f)) \in 1..MaxRecords}}

InitIngested ==
    /\ store \in IngestedStores
    /\ clock = 0
    /\ dPc = "find"
    /\ dBatch = <<>>
    /\ dIdx = 1
    /\ bPc = "idle"
    /\ bTasks = <<>>
    /\ ingestLog = [feed |-> <<>>, status |-> "none", before |-> 0]
    /\ slept = 0
    /\ window = <<>>
    /\ failed = {}
    /\ aIn = [event |-> Doc("ok"), img |-> "absent", reply |-> <<>>]
    /\ aOut = [app |-> <<>>, batch |-> <<>>]
    /\ InitRest

\* the daemon of app.py alone, with the collection reachable: the turns of
\* "while True" that no exception interrupts
NextLive ==
    \/ BackgroundFind(TRUE) /\ UNCHANGED <<ingestLog, timeVars, failed, restVars>>
    \/ \E out \in AppOutcomeSpace :
          BackgroundItem(out, TRUE) /\ UNCHANGED <<ingestLog, timeVars, failed, restVars>>
    \/ BackgroundIdleSleep /\ UNCHANGED <<ingestLog, timeVars, failed, restVars>>
    \/ BackgroundBatchSleep /\ UNCHANGED <<ingestLog, timeVars, failed, restVars>>

\* the daemon thread is never stopped: it always takes its next step
SpecLive == InitIngested /\ [][NextLive]_vars /\ WF_vars(NextLive)

\* a turn of the batch loop, noting the _id when the run commits a result on
\* a record that another worker enriched after the run had selected it with
\* find({"severity": None})
RaceConsume(id) ==
    /\ BatchConsume(id)
    /\ raced' = IF ~bTasks[id].raised /\ bTasks[id].result # <<>>
                   /\ store[id].severity # None
                THEN raced \cup {id}
                ELSE raced

\* the outcomes of analyze_event against a service that raises or gives one
\* and the same reply
OneReply(outcomes) ==
    {o \in outcomes : o.result = <<>> \/ o.result[1].analysis = <<MarkUpper, " ", "9">>}

\* the daemon of app.py and runs of gemini_processor.py, two workers at the
\* same time on one collection
NextWorkers ==
    \/ BackgroundFind(TRUE) /\ UNCHANGED <<ingestLog, timeVars, failed, restVars>>
    \/ \E out \in OneReply(AppOutcomeSpace) :
          BackgroundItem(out, TRUE) /\ UNCHANGED <<ingestLog, timeVars, failed, restVars>>
    \/ BackgroundIdleSleep /\ UNCHANGED <<ingestLog, timeVars, failed, restVars>>
    \/ BackgroundBatchSleep /\ UNCHANGED <<ingestLog, timeVars, failed, restVars>>
    \/ BatchStart /\ UNCHANGED <<ingestLog, timeVars, failed, restVars>>
    \/ BatchTaskStart /\ UNCHANGED <<ingestLog, timeVars, failed, restVars>>
    \/ \E id \in DOMAIN bTasks : \E out \in OneReply(BatchOutcomeSpace) :
          BatchTaskFinish(id, out) /\ UNCHANGED <<ingestLog, timeVars, failed, restVars>>
    \/ \E id \in DOMAIN bTasks :
          RaceConsume(id) /\ UNCHANGED <<ingestLog, timeVars, failed, statsVars, urlVars>>
    \/ BatchExit /\ UNCHANGED <<ingestLog, timeVars, failed, restVars>>

SpecWorkers == InitIngested /\ [][NextWorkers]_vars

\* the daemon is between two cycles: before find(), or in a sleep
DaemonResting == dPc \in {"find", "idle_sleep", "batch_sleep"}

\* one worker at a time: a run of gemini_processor.py starts while the daemon
\* is between two cycles, and the daemon starts no cycle during a run
NextSerial ==
    \/ bPc = "idle" /\ BackgroundFind(TRUE)
          /\ UNCHANGED <<ingestLog, timeVars, failed, restVars>>
    \/ \E out \in AppOutcomeSpace :
          BackgroundItem(out, TRUE) /\ UNCHANGED <<ingestLog, timeVars, failed, restVars>>
    \/ BackgroundIdleSleep /\ UNCHANGED <<ingestLog, timeVars, failed, restVars>>
    \/ BackgroundBatchSleep /\ UNCHANGED <<ingestLog, timeVars, failed, restVars>>
    \/ DaemonResting /\ BatchStart
          /\ UNCHANGED <<ingestLog, timeVars, failed, restVars>>
    \/ BatchTaskStart /\ UNCHANGED <<ingestLog, timeVars, failed, restVars>>
    \/ \E id \in DOMAIN bTasks : \E out \in BatchOutcomeSpace :
          BatchTaskFinish(id, out) /\ UNCHANGED <<ingestLog, timeVars, failed, restVars>>
    \/ \E id \in DOMAIN bTasks :
          BatchConsume(id) /\ UNCHANGED <<ingestLog, timeVars, failed, restVars>>
    \/ BatchExit /\ UNCHANGED <<ingestLog, timeVars, failed, restVars>>

SpecSerial == InitIngested /\ [][NextSerial]_vars

\* ------------------------------------ gemini_processor.py on a larger batch
\* collections of MaxPoolTasks ingested records, the oldest of any kind
PoolStores ==
    {s \in [1..MaxPoolTasks -> {Doc(k) : k \in StoredKinds}] :
        \A i \in 2..MaxPoolTasks : s[i] = Doc("ok")}

\* the script has read the collection and submitted every event to the pool
InitPool ==
    /\ store \in PoolStores
    /\ clock = 0
    /\ dPc = "find"
    /\ dBatch = <<>>
    /\ dIdx = 1
    /\ bPc = "pool"
    /\ bTasks = [i \in 1..MaxPoolTasks |-> [st |-> "queued", raised |-> FALSE, result |-> <<>>]]
    /\ ingestLog = [feed |-> <<>>, status |-> "none", before |-> 0]
    /\ slept = 0
    /\ window = <<>>
    /\ failed = {}
    /\ aIn = [event |-> Doc("ok"), img |-> "absent", reply |-> <<>>]
    /\ aOut = [app |-> <<>>, batch |-> <<>>]
    /\ InitRest

\* one run of gemini_processor.py, from the submission on
NextPool ==
    \/ BatchTaskStart /\ UNCHANGED <<ingestLog, timeVars, failed, restVars>>
    \/ \E id \in DOMAIN bTasks : \E out \in OneReply(BatchOutcomeSpace) :
          BatchTaskFinish(id, out) /\ UNCHANGED <<ingestLog, timeVars, failed, restVars>>
    \/ \E id \in DOMAIN bTasks :
          BatchConsume(id) /\ UNCHANGED <<ingestLog, timeVars, failed, restVars>>
    \/ BatchExit /\ UNCHANGED <<ingestLog, timeVars, failed, restVars>>

SpecPool == InitPool /\ [][NextPool]_vars

\* ------------------------------------------- /api/stats next to the workers
NextStats ==
    \/ BackgroundFind(TRUE) /\ UNCHANGED <<ingestLog, timeVars, failed, restVars>>
    \/ \E out \in AppOutcomeSpace :
          BackgroundItem(out, TRUE) /\ UNCHANGED <<ingestLog, timeVars, failed, restVars>>
    \/ BackgroundIdleSleep /\ UNCHANGED <<ingestLog, timeVars, failed, restVars>>
    \/ BackgroundBatchSleep /\ UNCHANGED <<ingestLog, timeVars, failed, restVars>>
    \/ BatchStart /\ UNCHANGED <<ingestLog, timeVars, failed, restVars>>
    \/ BatchTaskStart /\ UNCHANGED <<ingestLog, timeVars, failed, restVars>>
    \/ \E id \in DOMAIN bTasks : \E out \in BatchOutcomeSpace :
          BatchTaskFinish(id, out) /\ UNCHANGED <<ingestLog, timeVars, failed, restVars>>
    \/ \E id \in DOMAIN bTasks :
          BatchConsume(id) /\ UNCHANGED <<ingestLog, timeVars, failed, restVars>>
    \/ BatchExit /\ UNCHANGED <<ingestLog, timeVars, failed, restVars>>
    \/ StatsCountAll /\ UNCHANGED <<ingestLog, timeVars, failed, raced, urlVars>>
    \/ StatsCountProcessed /\ UNCHANGED <<ingestLog, timeVars, failed, raced, urlVars>>
    \/ StatsCountHigh /\ UNCHANGED <<ingestLog, timeVars, failed, raced, urlVars>>

SpecStats == InitIngested /\ [][NextStats]_vars

\* ------------------------------- get_first_image_url on every bounded input
InitImage ==
    /\ store = <<>>
    /\ clock = 0
    /\ dPc = "find"
    /\ dBatch = <<>>
    /\ dIdx = 1
    /\ bPc = "idle"
    /\ bTasks = <<>>
    /\ ingestLog = [feed |-> <<>>, status |-> "none", before |-> 0]
    /\ slept = 0
    /\ window = <<>>
    /\ failed = {}
    /\ aIn = [event |-> Doc("ok"), img |-> "absent", reply |-> <<>>]
    /\ aOut = [app |-> <<>>, batch |-> <<>>]
    /\ raced = {}
    /\ statsPc = "idle"
    /\ stats = NoStats
    /\ uIn \in SourceLists
    /\ uOut = [app |-> <<>>, batch |-> <<>>]

NextImage ==
    \/ ImageApp /\ UNCHANGED <<ingestLog, timeVars, failed, raced, statsVars>>
    \/ ImageBatch /\ UNCHANGED <<ingestLog, timeVars, failed, raced, statsVars>>

SpecImage == InitImage /\ [][NextImage]_vars

\* ------------------------------------------------------------- claims
\* a record that carries a severity and an analysis
Enriched(i) == store[i].severity # None /\ store[i].analysis # <<>>

\* C1: a record for which the Analyzer returned a failure is committed
\* complete (processed flag true) and matches no discovery query afterwards,
\* neither the daemon's nor the batch run's.
C1_PoisonPill ==
    \A i \in failed :
        /\ i \in Ids
        /\ store[i].processed
        /\ i \notin DaemonMatches
        /\ i \notin BatchMatches

\* C2: in every state of the Store, a record whose processed flag is not
\* true has neither a severity nor an analysis.
C2_UnenrichedUnset ==
    \A i \in Ids :
        ~store[i].processed => store[i].severity = None /\ store[i].analysis = <<>>

\* C3: no record of the Store holds a severity outside [1,10].
C3_SeverityInRange ==
    \A i \in Ids : store[i].severity # None => InRange(store[i].severity)

\* the three-stage Extractor of the specification
RefExtract(s) ==
    LET m == RegexCapture(s)
        ws == Split(s)
        numeric == {i \in 1..Len(ws) : IsDigit(ws[i]) /\ InRange(IntOf(ws[i]))}
    IN  IF m # <<>> /\ InRange(IntOf(m)) THEN IntOf(m)
        ELSE IF numeric # {} THEN IntOf(ws[CHOOSE i \in numeric : \A j \in numeric : i <= j])
        ELSE DefaultSeverity

\* C4: for every analysis text, the severity a worker commits (daemon or
\* batch run) is the one the three-stage reference Extractor gives.
C4_CommitsReference ==
    /\ \A k \in 1..Len(aOut.app) :
          aOut.app[k].doc.severity # None
              => aOut.app[k].doc.severity = RefExtract(aIn.reply[1])
    /\ \A k \in 1..Len(aOut.batch) :
          aOut.batch[k].doc.severity # None
              => aOut.batch[k].doc.severity = RefExtract(aIn.reply[1])

\* C5: every call of analyze_event, of either implementation, invokes the
\* external service exactly once, with the image exactly when one was decoded.
C5_ExactlyOneCall ==
    /\ \A k \in 1..Len(aOut.app) :
          aOut.app[k].calls = 1 /\ (aOut.app[k].multimodal <=> aIn.img = "decoded")
    /\ \A k \in 1..Len(aOut.batch) :
          aOut.batch[k].calls = 1 /\ (aOut.batch[k].multimodal <=> aIn.img = "decoded")

LiveStates == {"find", "item", "idle_sleep", "batch_sleep", "error_sleep"}

\* C7: the daemon thread never leaves its loop, and an exception caught in a
\* cycle is followed by a sleep of 60 s and then by the next discovery.
C7_ErrorsCaught ==
    [][ /\ dPc' \in LiveStates
        /\ (dPc = "error_sleep" /\ dPc' # dPc
               => dPc' = "find" /\ slept' = slept + ErrorSleep) ]_vars

\* update_one raised after an analysis call, and the thread is in the handler
C7_Witness == dPc = "error_sleep" /\ window # <<>>

\* the entry carries the category label, the geometry entry, its coordinates
\* and its date
HasRequiredKeys(entry) ==
    entry \notin {"no_categories", "no_geometry", "empty_geometry",
                  "no_coordinates", "no_date"}

\* C8: a run of the ingestor stores exactly one record per entry that has the
\* required keys, wherever the malformed entries stand in the feed, and each
\* stored record is Point-shaped with no severity and no completion flag.
C8_SkippedIndividually ==
    ingestLog.status # "none" =>
        /\ Len(store) - ingestLog.before =
              Cardinality({k \in 1..Len(ingestLog.feed) : HasRequiredKeys(ingestLog.feed[k])})
        /\ \A i \in (ingestLog.before + 1)..Len(store) :
              /\ store[i].location = "Point"
              /\ store[i].severity = None
              /\ ~store[i].processed

\* C9: the stats report the number of records, the number of enriched
\* records and the number of records with severity > 7.
C9_StatsExact ==
    get_stats =
        [ total_events |-> Len(store),
          processed |-> Cardinality({i \in Ids : Enriched(i)}),
          high_severity |-> Cardinality({i \in Ids : store[i].severity > HighSeverity}) ]

\* C10: the listing holds only enriched records with a severity in [1,10],
\* holds every enriched record unless more than 100 exist, is ordered by
\* last_processed descending and holds at most 100 records.
C10_ListingEnriched ==
    LET l == get_disasters
    IN  /\ \A k \in 1..Len(l) : Enriched(l[k]) /\ InRange(store[l[k]].severity)
        /\ (Cardinality({i \in Ids : Enriched(i)}) <= ListLimit
               => \A i \in Ids : Enriched(i) => \E k \in 1..Len(l) : l[k] = i)
        /\ \A k \in 1..(Len(l) - 1) :
               store[l[k]].last_processed >= store[l[k + 1]].last_processed
        /\ Len(l) <= ListLimit

\* C11: under a daemon that keeps running on a reachable collection with no
\* further ingestion, every record is eventually committed with the status
\* flag set, also when the analysis of some record fails every time.
C11_ForwardProgress == <>(\A i \in Ids : store[i].processed)

\* C12: when a run of gemini_processor.py commits a result on a record it
\* selected as unenriched and the daemon has enriched and flagged in the
\* meantime, the commit is applied all the same: the record then carries the
\* severity, the analysis and the time of the later commit.
C12_LaterCommitOverwrites ==
    [][\A i \in Ids :
          (i \in raced' /\ i \notin raced) =>
             /\ Enriched(i) /\ store[i].processed
             /\ store'[i].severity = ExtractLoop(bTasks[i].result[1].analysis)
             /\ store'[i].analysis = <<bTasks[i].result[1].analysis>>
             /\ store'[i].last_processed = clock'
             /\ store'[i].last_processed > store[i].last_processed]_vars

\* both workers selected record i and analyzed it, the daemon committed, and
\* the run committed after it
C12_Witness ==
    \E i \in raced :
        /\ i \in DOMAIN bTasks /\ bTasks[i].st = "consumed"
        /\ store[i].processed
        /\ store[i].analysis = <<bTasks[i].result[1].analysis>>
        /\ store[i].last_processed = clock /\ clock > 1

\* the elements of a sequence
Range(s) == {s[k] : k \in 1..Len(s)}

\* C13: with one worker at a time, once a record carries a severity and an
\* analysis no step changes the record, find() of the daemon does not
\* return it and a run of gemini_processor.py does not submit it.
C13_IdempotentCommit ==
    [][\A i \in Ids :
          Enriched(i) =>
             /\ store'[i] = store[i]
             /\ (dPc = "find" /\ dPc' = "item") => i \notin Range(dBatch')
             /\ (bPc = "idle" /\ bPc' = "pool") => i \notin DOMAIN bTasks']_vars


\* C16: a step of a worker leaves the set of records as it is, changes at
\* most one record, and leaves the type, the location, the timestamp and the
\* raw payload of every record as they are.
C16_WriteFrame ==
    [][/\ Len(store') = Len(store)
       /\ Cardinality({i \in Ids : store'[i] # store[i]}) <= 1
       /\ \A i \in Ids :
             /\ store'[i].type = store[i].type
             /\ store'[i].location = store[i].location
             /\ store'[i].timestamp = store[i].timestamp
             /\ store'[i].raw_data = store[i].raw_data]_vars

\* a result was committed on one record and the poison pill on another
C16_Witness ==
    \E i, j \in Ids :
        /\ i # j
        /\ Enriched(i)
        /\ store[j].processed /\ ~Enriched(j)


\* C14: in a run of gemini_processor.py at most PoolWidth analyze_event
\* tasks are running at any time, and the turn of the loop that consumes a
\* finished task writes the outcome of that task to the record the task was
\* submitted for and to no other record.
C14_PoolWidthAndTarget ==
    [][/\ Cardinality(Running') <= PoolWidth
       /\ \A id \in DOMAIN bTasks :
             (bTasks[id].st = "done" /\ bTasks'[id].st = "consumed") =>
                /\ \A j \in Ids \ {id} : store'[j] = store[j]
                /\ store[id].raw_data = "no_title" => ~Enriched(id)'
                /\ bTasks[id].result # <<>> =>
                      /\ store'[id].analysis = <<bTasks[id].result[1].analysis>>
                      /\ store'[id].last_processed = clock']_vars

\* the pool is full and a submitted task waits for a thread
C14_Witness ==
    /\ Cardinality(Running) = PoolWidth
    /\ Queued # {}
    /\ Cardinality(DOMAIN bTasks) > PoolWidth


\* the image outcomes in which no image was obtained from the URL
ImageFailures == {"status_error", "transport_error", "decode_error"}

C17_ExtractionsAgree ==
    (aOut.batch # <<>> /\ aOut.batch[1].returned # <<>>) =>
        aOut.batch[1].doc.severity = aOut.batch[1].returned[1].severity


\* C18: in every response of /api/stats the number of high-severity records
\* is at most the number of processed records, which is at most the number
\* of records.
C18_StatsOrdered ==
    (statsPc = "idle" /\ stats # NoStats) =>
        /\ stats.high_severity <= stats.processed
        /\ stats.processed <= stats.total_events


\* the first URL of the sources that ends in an image extension, compared
\* in lower case; <<>> when there is none
RECURSIVE FirstWithImageExtension(_)
FirstWithImageExtension(sources) ==
    IF sources = <<>> THEN <<>>
    ELSE LET url == Head(sources)
         IN  IF url # <<>> /\ LowerUrl(url)[Len(url)] \in ImageExts THEN <<url>>
             ELSE FirstWithImageExtension(Tail(sources))

\* C19: get_first_image_url of app.py and of gemini_processor.py both
\* return the first URL that ends in .png, .jpg or .jpeg, case-insensitively,
\* and no URL when there is none; so they return the same.
C19_ImageSelection ==
    /\ uOut.app # <<>> => uOut.app[1] = FirstWithImageExtension(uIn)
    /\ uOut.batch # <<>> => uOut.batch[1] = FirstWithImageExtension(uIn)
    /\ (uOut.app # <<>> /\ uOut.batch # <<>>) => uOut.app = uOut.batch


SleepStates == {"idle_sleep", "batch_sleep", "error_sleep"}

====
